---- MODULE Spec2Model ----
(***************************************************************************)
(* Conversation-context management of the legal assistant backend:         *)
(* LegalService (services/legal_service.py) over its Redis key space, and  *)
(* the turn orchestration chat_with_legal_agent (agents/legal_agent.py).   *)
(*                                                                         *)
(* The Redis key space is one record, redis, with one field per key        *)
(* family and one entry per account.  Every service method is an operator  *)
(* from a key space to a key space (and, where it returns something, an    *)
(* operator giving its return value), so that a handler that calls several *)
(* methods without suspending is one action.  A coroutine suspends only at *)
(* a model call (llm.ainvoke), at a fragment handed to the consumer, and   *)
(* where the agent stream is awaited: the Redis client is the synchronous  *)
(* one, so no other task runs during a store operation.                    *)
(***************************************************************************)
EXTENDS Integers, Sequences, FiniteSets, TLC

\* ------------------------------------------------------------------ bounds
\* Logical time: every datetime.now() of add_message reads a later instant.
MaxClock == 4
\* Appends to the account whose summary is followed.
MaxAppends == 2
\* Logical time up to which turns are appended under the context assembler.
MaxContextClock == 6
\* Messages in the history of an account in use when it is cleared.
MaxUsedLen == 2
\* Entries in what the search wrapper returns.
MaxResults == 2
\* Lengths of the message lists handed directly to save_chat_history.
MaxDirectLen == 12
\* Turns started under the orchestration, and under the refresh cadence.
MaxTurns == 2
MaxCadenceTurns == 6
\* Turns started with different inputs.
MaxPersistTurns == 2
\* Turns started on the aged metadata log.
MaxMetadataTurns == 3
\* Output fragments and intermediate-step chunks of one agent stream.
MaxTokens == 2
MaxSteps == 1

\* ------------------------------------------------------- program constants
max_history_messages == 10
recent_count == 3
window_size == 5
summary_update_threshold == 5
\* The count at which update_conversation_summary resets the counter.
CounterCeiling == 100
\* The number of records save_conversation keeps in the metadata log.
MetadataCap == 100
\* The number of characters of the input kept in a metadata record.
InputPrefix == 100

Accounts == {"a1", "a2"}
Roles == {"user", "assistant"}
Contents == {"X", "Y"}
\* A key's entry: NoKey when the key does not exist (redis.get returns None),
\* Stored(v) when it holds v.
NoKey == <<>>
Stored(v) == <<v>>
Value(entry) == entry[1]

\* A text (a Python str) is a sequence; the empty string is the empty one.
EmptyText == <<>>

\* Direct callers of the service's coroutines (each runs one call at a time).
Callers == {"c1", "c2"}

VARIABLES
    redis,      \* the key space: one field per key family, one entry per account
    clock,      \* the instant the next datetime.now() reads
    appended,   \* history: per account, the (role, content) pairs appended since
                \* the history was last replaced or cleared
    svc,        \* per direct caller, the frame of the coroutine it is running
    ended,      \* what the call that ended in the last step came to
    sumobs,     \* history: per account, the last two successive generate_summary calls
    turn,       \* per request slot, the frame of chat_with_legal_agent
    ready,      \* the event loop's queue of created background task pairs
    bg,         \* the background tasks suspended at a model call
    finalized,  \* history: per account, the number of turns finalized so far
    started,    \* the number of turns started
    updobs      \* history: what the update_conversation_summary started last did

turnvars == <<turn, ready, bg, finalized, started, updobs>>

vars == <<redis, clock, appended, svc, ended, sumobs, turn, ready, bg, finalized, started, updobs>>

\* ------------------------------------------------------------- serialising
\* json.dumps of a message list: the stored text is not the list.  A message
\* {"role", "content", "timestamp"} is written as the triple of its values.
json_dumps(messages) ==
    [i \in 1..Len(messages) |->
        <<messages[i].role, messages[i].content, messages[i].timestamp>>]

json_loads(text) ==
    [i \in 1..Len(text) |->
        [role |-> text[i][1], content |-> text[i][2], timestamp |-> text[i][3]]]

\* Python's messages[-n:] for n > 0.
LastN(s, n) == IF Len(s) > n THEN SubSeq(s, Len(s) - n + 1, Len(s)) ELSE s

Message(role, content, ts) == [role |-> role, content |-> content, timestamp |-> ts]

\* -------------------------------------------------------- ConversationStore
save_chat_history_mut_untruncated(r, a, messages) ==
    [r EXCEPT !.chat_history[a] = Stored(json_dumps(messages))]

save_chat_history_mut_head(r, a, messages) ==
    [r EXCEPT !.chat_history[a] =
        Stored(json_dumps(IF Len(messages) > max_history_messages
                          THEN SubSeq(messages, 1, max_history_messages)
                          ELSE messages))]

save_chat_history(r, a, messages) ==
    [r EXCEPT !.chat_history[a] =
        Stored(json_dumps(IF Len(messages) > max_history_messages
                          THEN LastN(messages, max_history_messages)
                          ELSE messages))]

get_chat_history(r, a) ==
    IF r.chat_history[a] # NoKey THEN json_loads(Value(r.chat_history[a])) ELSE <<>>

add_message_mut_prepend(r, a, role, content, ts) ==
    save_chat_history(r, a, <<Message(role, content, ts)>> \o get_chat_history(r, a))

add_message(r, a, role, content, ts) ==
    save_chat_history(r, a, Append(get_chat_history(r, a), Message(role, content, ts)))

save_chat_messages_mut_stale(r, a, user_message, assistant_message, ts) ==
    add_message(r, a, "assistant", assistant_message, ts + 1)

save_chat_messages(r, a, user_message, assistant_message, ts) ==
    add_message(add_message(r, a, "user", user_message, ts),
                a, "assistant", assistant_message, ts + 1)

clear_chat_history_mut_profile(r, a) ==
    [r EXCEPT !.chat_history[a] = NoKey, !.chat_summary[a] = NoKey,
              !.user_profile[a] = NoKey]

clear_chat_history(r, a) ==
    [r EXCEPT !.chat_history[a] = NoKey, !.chat_summary[a] = NoKey]

\* ------------------------------------------------------------ coroutines
\* What a coroutine has come to when it stops running: it returned ret
\* (pc "done"), it raised (pc "raised"), or it is suspended at a model call
\* with its locals in loc.  r is the key space it leaves.  obs is history:
\*   how      the way generate_summary obtained what it returned
\*   invoked  whether the model was invoked for the summary
\*   seen     the stored history a context was assembled from
\*   summary  what generate_summary returned to the assembler
\*   profile  the way get_user_profile obtained what it returned
Outcome(r, pc, ret, loc, obs) == [r |-> r, pc |-> pc, ret |-> ret, loc |-> loc, obs |-> obs]

NoObs ==
    [how |-> "none", invoked |-> FALSE, seen |-> <<>>,
     summary |-> EmptyText, profile |-> "none", slot |-> "none", err |-> "none",
     scheduled |-> FALSE, fragments |-> 0, input |-> ""]

SummaryObs(how, invoked) == [NoObs EXCEPT !.how = how, !.invoked = invoked]

\* ------------------------------------------------------------ SummaryEngine
\* hashlib.md5(json.dumps(messages).encode()).hexdigest(): a digest of the
\* serialised list (distinct lists are taken to have distinct digests).
md5(text) == <<"md5", text>>

\* response.content of the model for the summary prompt over messages: the
\* model's wording (reply) of a summary of exactly these messages.
llm_summary(messages, reply) == <<reply, json_dumps(messages)>>

\* setex(summary_key, summary_ttl, text): the key lives for 24 hours.  ttl is
\* "live" while redis.ttl reports a positive number of seconds and "last" in
\* the key's last half second, when it reports 0.
SummaryEntry(text) == Stored([text |-> text, ttl |-> "live"])

HistoryHashMatches(r, a) ==
    r.summary_hash[a] = Stored(md5(json_dumps(get_chat_history(r, a))))

\* generate_summary up to its model call.  down: the store is unreachable
\* during the call, so that its first operation raises.
generate_summary_start_mut_nocache(r, a, down) ==
    IF down \/ get_chat_history(r, a) = <<>>
    THEN Outcome(r, "done", EmptyText, <<>>,
                 SummaryObs(IF down THEN "failed" ELSE "nomsg", FALSE))
    ELSE Outcome(r, "llm", EmptyText,
                 [messages |-> get_chat_history(r, a),
                  messages_hash |-> md5(json_dumps(get_chat_history(r, a)))],
                 SummaryObs("generated", TRUE))

generate_summary_start(r, a, down) ==
    IF down
    THEN Outcome(r, "done", EmptyText, <<>>, SummaryObs("failed", FALSE))
    ELSE
    LET cached == r.chat_summary[a]
        cached_summary == IF cached = NoKey THEN EmptyText ELSE Value(cached).text
        messages == get_chat_history(r, a)
        messages_hash == md5(json_dumps(messages))
    IN  IF cached # NoKey /\ cached_summary # EmptyText /\ Value(cached).ttl = "live"
        THEN Outcome(r, "done", cached_summary, <<>>, SummaryObs("cache", FALSE))
        ELSE IF messages = <<>>
        THEN Outcome(r, "done", EmptyText, <<>>, SummaryObs("nomsg", FALSE))
        ELSE IF r.summary_hash[a] = Stored(messages_hash)
        THEN Outcome(r, "done", cached_summary, <<>>, SummaryObs("hash", FALSE))
        ELSE Outcome(r, "llm", EmptyText,
                     [messages |-> messages, messages_hash |-> messages_hash],
                     SummaryObs("generated", TRUE))

\* What the model call and the two writes after it come to: the model's
\* reply (one of two wordings, or the empty text), the model call raising, or
\* the first or the second setex raising.
Replies == {"r1", "r2"}
SummaryOutcomes == Replies \cup {"empty", "llm_fail", "setex1_fail", "setex2_fail"}

\* generate_summary from its model call on.
generate_summary_resume_mut_propagates(r, a, loc, outcome) ==
    IF outcome \in Replies
    THEN Outcome([r EXCEPT !.chat_summary[a] = SummaryEntry(llm_summary(loc.messages, outcome)),
                           !.summary_hash[a] = Stored(loc.messages_hash)],
                 "done", llm_summary(loc.messages, outcome), <<>>,
                 SummaryObs("generated", TRUE))
    ELSE Outcome(r, "raised", EmptyText, <<>>, SummaryObs("failed", TRUE))

generate_summary_resume_mut_latehash(r, a, loc, outcome) ==
    LET new_summary == IF outcome \in Replies THEN llm_summary(loc.messages, outcome)
                       ELSE EmptyText
    IN  CASE outcome \in Replies \cup {"empty"} ->
                Outcome([r EXCEPT !.chat_summary[a] = SummaryEntry(new_summary),
                                  !.summary_hash[a] =
                                      Stored(md5(json_dumps(get_chat_history(r, a))))],
                        "done", new_summary, <<>>, SummaryObs("generated", TRUE))
          [] outcome = "setex2_fail" ->
                Outcome([r EXCEPT !.chat_summary[a] =
                                      SummaryEntry(llm_summary(loc.messages, "r1"))],
                        "done", EmptyText, <<>>, SummaryObs("failed", TRUE))
          [] OTHER ->
                Outcome(r, "done", EmptyText, <<>>, SummaryObs("failed", TRUE))

generate_summary_resume(r, a, loc, outcome) ==
    LET new_summary == IF outcome \in Replies THEN llm_summary(loc.messages, outcome)
                       ELSE EmptyText
    IN  CASE outcome \in Replies \cup {"empty"} ->
                Outcome([r EXCEPT !.chat_summary[a] = SummaryEntry(new_summary),
                                  !.summary_hash[a] = Stored(loc.messages_hash)],
                        "done", new_summary, <<>>, SummaryObs("generated", TRUE))
          [] outcome = "setex2_fail" ->
                Outcome([r EXCEPT !.chat_summary[a] =
                                      SummaryEntry(llm_summary(loc.messages, "r1"))],
                        "done", EmptyText, <<>>, SummaryObs("failed", TRUE))
          [] OTHER ->
                Outcome(r, "done", EmptyText, <<>>, SummaryObs("failed", TRUE))

\* ------------------------------------------------------------ ProfileEngine
\* A profile: the usage counter and whether the fields the model inferred
\* from the history were merged into the defaults.
Profile(total, inferred) == [total_conversations |-> total, inferred |-> inferred]

json_dumps_profile(profile) == <<profile.total_conversations, profile.inferred>>

json_loads_profile(text) == Profile(text[1], text[2])

ProfileObs(how) == [NoObs EXCEPT !.profile = how]

\* get_user_profile up to its model call.
get_user_profile_start(r, a, down) ==
    IF down
    THEN Outcome(r, "raised", <<>>, <<>>, ProfileObs("store_failed"))
    ELSE IF r.user_profile[a] # NoKey
    THEN Outcome(r, "done", json_loads_profile(Value(r.user_profile[a])), <<>>,
                 ProfileObs("cached"))
    ELSE
    LET default_profile == Profile(0, FALSE)
    IN  IF get_chat_history(r, a) # <<>>
        THEN Outcome(r, "llm", <<>>, [default_profile |-> default_profile],
                     ProfileObs("none"))
        ELSE Outcome([r EXCEPT !.user_profile[a] = Stored(json_dumps_profile(default_profile))],
                     "done", default_profile, <<>>, ProfileObs("default"))

\* What the inference call and the write after it come to: a reply that
\* parses, the model call raising, a reply json.loads rejects, or the setex
\* raising.
ProfileOutcomes == {"ok", "llm_fail", "parse_fail", "setex_fail"}

\* get_user_profile from its model call on.
get_user_profile_resume_mut_propagates(r, a, loc, outcome) ==
    IF outcome = "ok"
    THEN Outcome([r EXCEPT !.user_profile[a] = Stored(json_dumps_profile(Profile(0, TRUE)))],
                 "done", Profile(0, TRUE), <<>>, ProfileObs("inferred"))
    ELSE Outcome(r, "raised", <<>>, <<>>,
                 ProfileObs(IF outcome = "setex_fail" THEN "store_failed"
                            ELSE "inference_failed"))

get_user_profile_resume(r, a, loc, outcome) ==
    LET profile == IF outcome = "ok"
                   THEN [loc.default_profile EXCEPT !.inferred = TRUE]
                   ELSE loc.default_profile
    IN  IF outcome = "setex_fail"
        THEN Outcome(r, "raised", <<>>, <<>>, ProfileObs("store_failed"))
        ELSE Outcome([r EXCEPT !.user_profile[a] = Stored(json_dumps_profile(profile))],
                     "done", profile, <<>>,
                     ProfileObs(IF outcome = "ok" THEN "inferred" ELSE "inference_failed"))

\* --------------------------------------------------------- ContextAssembler
Strategies == {"full", "summary", "hybrid", "window"}

\* The context get_conversation_context builds from the stored messages and
\* the summary, before the profile is attached.
build_context_mut_recent2(strategy, messages, summary) ==
    [history |-> IF Len(messages) > 2 THEN LastN(messages, 2) ELSE messages,
     summary |-> IF Len(messages) > 2 THEN summary ELSE EmptyText,
     strategy |-> strategy,
     user_profile |-> NoKey]

build_context_mut_window_head(strategy, messages, summary) ==
    [history |->
        CASE strategy = "full" -> messages
          [] strategy = "hybrid" ->
                IF Len(messages) > recent_count
                THEN LastN(messages, recent_count) ELSE messages
          [] strategy = "window" ->
                IF Len(messages) > window_size
                THEN SubSeq(messages, 1, window_size) ELSE messages
          [] OTHER -> <<>>,
     summary |->
        CASE strategy = "summary" -> summary
          [] strategy = "hybrid" /\ Len(messages) > recent_count -> summary
          [] OTHER -> EmptyText,
     strategy |-> strategy,
     user_profile |-> NoKey]

build_context(strategy, messages, summary) ==
    [history |->
        CASE strategy = "full" -> messages
          [] strategy = "hybrid" ->
                IF Len(messages) > recent_count
                THEN LastN(messages, recent_count) ELSE messages
          [] strategy = "window" ->
                IF Len(messages) > window_size
                THEN LastN(messages, window_size) ELSE messages
          [] OTHER -> <<>>,
     summary |->
        CASE strategy = "summary" -> summary
          [] strategy = "hybrid" /\ Len(messages) > recent_count -> summary
          [] OTHER -> EmptyText,
     strategy |-> strategy,
     user_profile |-> NoKey]

\* get_conversation_context from the return of generate_summary (whose
\* history is sobs) to the model call of get_user_profile.  down: the store is
\* unreachable during get_user_profile.
context_after_summary_mut_unattached(r, a, strategy, messages, summary, sobs, down) ==
    LET context == build_context(strategy, messages, summary)
        p == get_user_profile_start(r, a, down)
        obs == [sobs EXCEPT !.seen = messages, !.summary = summary,
                            !.profile = p.obs.profile]
    IN  CASE p.pc = "raised" -> Outcome(r, "raised", <<>>, <<>>, obs)
          [] p.pc = "llm" ->
                Outcome(r, "profile_llm", <<>>,
                        [context |-> context, default_profile |-> p.loc.default_profile,
                         obs |-> obs], obs)
          [] OTHER -> Outcome(p.r, "done", context, <<>>, obs)

context_after_summary(r, a, strategy, messages, summary, sobs, down) ==
    LET context == build_context(strategy, messages, summary)
        p == get_user_profile_start(r, a, down)
        obs == [sobs EXCEPT !.seen = messages, !.summary = summary,
                            !.profile = p.obs.profile]
    IN  CASE p.pc = "raised" -> Outcome(r, "raised", <<>>, <<>>, obs)
          [] p.pc = "llm" ->
                Outcome(r, "profile_llm", <<>>,
                        [context |-> context, default_profile |-> p.loc.default_profile,
                         obs |-> obs], obs)
          [] OTHER ->
                Outcome(p.r, "done", [context EXCEPT !.user_profile = Stored(p.ret)],
                        <<>>, obs)

\* get_conversation_context up to its first model call.  down: the calls
\* (of "history", "summary", "profile") during which the store is unreachable.
get_conversation_context_start(r, a, strategy, down) ==
    IF "history" \in down
    THEN Outcome(r, "raised", <<>>, <<>>, NoObs)
    ELSE
    LET messages == get_chat_history(r, a)
        g == generate_summary_start(r, a, "summary" \in down)
    IN  CASE g.pc = "llm" ->
                Outcome(r, "summary_llm", <<>>,
                        [messages |-> messages, strategy |-> strategy, gen |-> g.loc],
                        [g.obs EXCEPT !.seen = messages])
          [] g.pc = "raised" -> Outcome(g.r, "raised", <<>>, <<>>, g.obs)
          [] OTHER ->
                context_after_summary(g.r, a, strategy, messages, g.ret, g.obs,
                                      "profile" \in down)

\* get_conversation_context from the end of the summary's model call.
get_conversation_context_summary_done(r, a, loc, outcome, down) ==
    LET g == generate_summary_resume(r, a, loc.gen, outcome)
    IN  IF g.pc = "raised"
        THEN Outcome(g.r, "raised", <<>>, <<>>, [g.obs EXCEPT !.seen = loc.messages])
        ELSE context_after_summary(g.r, a, loc.strategy, loc.messages, g.ret, g.obs, down)

\* get_conversation_context from the end of the profile's model call.
get_conversation_context_profile_done(r, a, loc, outcome) ==
    LET p == get_user_profile_resume(r, a, loc, outcome)
        obs == [loc.obs EXCEPT !.profile = p.obs.profile]
    IN  IF p.pc = "raised"
        THEN Outcome(p.r, "raised", <<>>, <<>>, obs)
        ELSE Outcome(p.r, "done", [loc.context EXCEPT !.user_profile = Stored(p.ret)],
                     <<>>, obs)

\* ------------------------------------------------------------ BackgroundTasks
\* json.dumps / json.loads of the metadata log: a record is written as the
\* tuple of its values.
json_dumps_metadata(metadata_list) ==
    [i \in 1..Len(metadata_list) |->
        <<metadata_list[i].timestamp, metadata_list[i].user_input,
          metadata_list[i].agent_response_length, metadata_list[i].metadata>>]

json_loads_metadata(text) ==
    [i \in 1..Len(text) |->
        [timestamp |-> text[i][1], user_input |-> text[i][2],
         agent_response_length |-> text[i][3], metadata |-> text[i][4]]]

\* Python's text[:n].
Prefix(text, n) == IF Len(text) > n THEN SubSeq(text, 1, n) ELSE text

\* The metadata block of save_conversation: the record of the turn, stamped
\* ts, is appended to the log of the day, which keeps its last MetadataCap
\* records.
save_metadata_mut_keeps_oldest(r, a, user_input, agent_response, metadata, ts) ==
    LET existing_metadata == r.conv_metadata[a]
        metadata_list == IF existing_metadata # NoKey
                         THEN json_loads_metadata(Value(existing_metadata)) ELSE <<>>
        metadata_record == [timestamp |-> ts,
                            user_input |-> Prefix(user_input, InputPrefix),
                            agent_response_length |-> Len(agent_response),
                            metadata |-> metadata]
        longer == Append(metadata_list, metadata_record)
    IN  [r EXCEPT !.conv_metadata[a] =
            Stored(json_dumps_metadata(IF Len(longer) > MetadataCap
                                       THEN SubSeq(longer, 1, MetadataCap) ELSE longer))]

save_metadata(r, a, user_input, agent_response, metadata, ts) ==
    LET existing_metadata == r.conv_metadata[a]
        metadata_list == IF existing_metadata # NoKey
                         THEN json_loads_metadata(Value(existing_metadata)) ELSE <<>>
        metadata_record == [timestamp |-> ts,
                            user_input |-> Prefix(user_input, InputPrefix),
                            agent_response_length |-> Len(agent_response),
                            metadata |-> metadata]
        longer == Append(metadata_list, metadata_record)
    IN  [r EXCEPT !.conv_metadata[a] =
            Stored(json_dumps_metadata(IF Len(longer) > MetadataCap
                                       THEN LastN(longer, MetadataCap) ELSE longer))]

\* _update_user_profile_stats once the profile is in hand.
bump_usage_mut_twice(r, a, profile) ==
    [r EXCEPT !.user_profile[a] =
        Stored(json_dumps_profile([profile EXCEPT !.total_conversations = @ + 2]))]

bump_usage(r, a, profile) ==
    [r EXCEPT !.user_profile[a] =
        Stored(json_dumps_profile([profile EXCEPT !.total_conversations = @ + 1]))]

\* The store operation of save_conversation that fails, if any.
SaveDown == {"none", "messages", "metadata", "profile"}

\* save_conversation up to the model call of get_user_profile.  Every
\* exception ends the task (it is logged), leaving what was written before.
save_conversation_start_mut_propagates(r, a, user_input, agent_response, metadata, ts, down) ==
    IF down = "messages"
    THEN Outcome(r, "raised", <<>>, <<>>, NoObs)
    ELSE
    LET r1 == save_chat_messages(r, a, user_input, agent_response, ts)
        r2 == IF metadata # NoKey
              THEN save_metadata(r1, a, user_input, agent_response, Value(metadata), ts + 2)
              ELSE r1
        p == get_user_profile_start(r2, a, down = "profile")
    IN  CASE down = "metadata" -> Outcome(r1, "raised", <<>>, <<>>, NoObs)
          [] p.pc = "raised" -> Outcome(p.r, "raised", <<>>, <<>>, NoObs)
          [] p.pc = "llm" -> Outcome(p.r, "profile_llm", <<>>, p.loc, NoObs)
          [] OTHER -> Outcome(bump_usage(p.r, a, p.ret), "done", <<>>, <<>>, NoObs)

save_conversation_start(r, a, user_input, agent_response, metadata, ts, down) ==
    IF down = "messages"
    THEN Outcome(r, "done", <<>>, <<>>, NoObs)
    ELSE
    LET r1 == save_chat_messages(r, a, user_input, agent_response, ts)
        r2 == IF metadata # NoKey
              THEN save_metadata(r1, a, user_input, agent_response, Value(metadata), ts + 2)
              ELSE r1
        p == get_user_profile_start(r2, a, down = "profile")
    IN  CASE down = "metadata" -> Outcome(r1, "done", <<>>, <<>>, NoObs)
          [] p.pc = "raised" -> Outcome(p.r, "done", <<>>, <<>>, NoObs)
          [] p.pc = "llm" -> Outcome(p.r, "profile_llm", <<>>, p.loc, NoObs)
          [] OTHER -> Outcome(bump_usage(p.r, a, p.ret), "done", <<>>, <<>>, NoObs)

\* save_conversation from the end of the profile's model call.
save_conversation_resume(r, a, loc, outcome) ==
    LET p == get_user_profile_resume(r, a, loc, outcome)
    IN  IF p.pc = "raised"
        THEN Outcome(p.r, "done", <<>>, <<>>, NoObs)
        ELSE Outcome(bump_usage(p.r, a, p.ret), "done", <<>>, <<>>, NoObs)

\* redis.incr: a key that does not exist counts from 0.
incr(r, a) == IF r.conv_count[a] = NoKey THEN 1 ELSE Value(r.conv_count[a]) + 1

\* The end of the refresh branch of update_conversation_summary.
reset_count(r, a, conversation_count) ==
    IF conversation_count >= CounterCeiling
    THEN [r EXCEPT !.conv_count[a] = Stored(0)] ELSE r

\* update_conversation_summary up to the model call of generate_summary.
\* obs.how is "skipped" when the turn is not one that refreshes.
update_conversation_summary_start(r, a, force, down) ==
    IF down
    THEN Outcome(r, "done", EmptyText, <<>>, SummaryObs("failed", FALSE))
    ELSE
    LET conversation_count == incr(r, a)
        r1 == [r EXCEPT !.conv_count[a] = Stored(conversation_count)]
        g == generate_summary_start(r1, a, FALSE)
    IN  IF force \/ conversation_count % summary_update_threshold = 0
        THEN IF g.pc = "llm"
             THEN Outcome(g.r, "summary_llm", EmptyText,
                          [conversation_count |-> conversation_count, gen |-> g.loc], g.obs)
             ELSE Outcome(reset_count(g.r, a, conversation_count), "done", g.ret, <<>>, g.obs)
        ELSE Outcome(r1, "done",
                     IF r1.chat_summary[a] # NoKey THEN Value(r1.chat_summary[a]).text
                     ELSE EmptyText,
                     <<>>, SummaryObs("skipped", FALSE))

\* update_conversation_summary from the end of the summary's model call.
update_conversation_summary_resume(r, a, loc, outcome) ==
    LET g == generate_summary_resume(r, a, loc.gen, outcome)
    IN  Outcome(reset_count(g.r, a, loc.conversation_count), "done", g.ret, <<>>, g.obs)

\* -------------------------------------------------------- TurnOrchestrator
\* The request slots: each runs one chat_with_legal_agent at a time.
Turns == {"t1", "t2"}
Tokens == {"Y", "Z"}

\* The messages of lines 218, 224, 226 and 228:
\*   TimeoutApology  "抱歉，思考时间过长，请简化您的问题重试。"
\*   GenericFailure  "对话失败，请稍后再试"
\*   ServiceBusy     "服务繁忙，请稍后重试"
\*   NewSession      "对话历史过长，已开启新会话"
TimeoutApology == "timeout_apology"
GenericFailure == "chat_failed"
ServiceBusy == "service_busy"
NewSession == "new_session"

\* What the agent invocation raises: asyncio.TimeoutError, or an exception
\* whose text holds "rate limit", holds "context length", or holds neither.
Errors == {"TimeoutError", "rate limit", "context length", "other"}

\* "".join(full_response)
RECURSIVE join(_)
join(tokens) == IF tokens = <<>> THEN "" ELSE tokens[1] \o join(Tail(tokens))

\* The except clauses of chat_with_legal_agent for the exception err.  In
\* the context-length branch clear_chat_history, a plain function, runs when
\* the argument of asyncio.create_task is evaluated and returns None;
\* create_task(None) raises TypeError inside the handler, so the generator
\* ends with that exception before its yield.
chat_except(r, a, err) ==
    CASE err = "TimeoutError" -> [r |-> r, pc |-> "error", yields |-> <<TimeoutApology>>]
      [] err = "rate limit" -> [r |-> r, pc |-> "error", yields |-> <<ServiceBusy>>]
      [] err = "context length" ->
            [r |-> clear_chat_history(r, a), pc |-> "raised", yields |-> <<>>]
      [] OTHER -> [r |-> r, pc |-> "error", yields |-> <<GenericFailure>>]

chat_fail_mut_drops_output(r, fr, err) ==
    LET h == chat_except(r, fr.acct, err)
    IN  [r |-> h.r,
         fr |-> [fr EXCEPT !.pc = h.pc, !.out = h.yields, !.err = err, !.loc = <<>>]]

chat_fail(r, fr, err) ==
    LET h == chat_except(r, fr.acct, err)
    IN  [r |-> h.r,
         fr |-> [fr EXCEPT !.pc = h.pc, !.out = @ \o h.yields, !.err = err, !.loc = <<>>]]

\* chat_with_legal_agent from what get_conversation_context came to (res) up
\* to the first chunk of the agent stream.  down: the store is unreachable
\* during the get_user_profile of the agent input; that call finds the
\* profile the assembler has just stored, so it does not reach its model call.
chat_after_context(fr, res, down) ==
    CASE res.pc = "raised" -> chat_fail(res.r, fr, "other")
      [] res.pc \in {"summary_llm", "profile_llm"} ->
            [r |-> res.r, fr |-> [fr EXCEPT !.pc = res.pc, !.loc = res.loc]]
      [] OTHER ->
            LET p == get_user_profile_start(res.r, fr.acct, down)
            IN  IF p.pc = "raised"
                THEN chat_fail(p.r, fr, "other")
                ELSE [r |-> p.r,
                      fr |-> [fr EXCEPT !.pc = "stream", !.loc = <<>>,
                                        !.context = res.ret]]

\* ---------------------------------------------------------- StreamResponse
\* The length at which generate_stream_response sends its chunk.
ChunkLength == 10

\* The tokens that make generate_stream_response send its chunk at once: the
\* full-width full stop, question mark, exclamation mark, semicolon and comma
\* of line 243, written here with their ASCII counterparts.
Punctuation == {".", "?", "!", ";", ","}

\* The frame "data: " + JsonData.stream_data(chunk).model_dump_json(), and
\* the frame "data: [DONE]".
DataFrame(chunk) ==
    [done |-> FALSE, code |-> 0, data |-> chunk, msg |-> "", type |-> "stream"]

DoneFrame == [done |-> TRUE, code |-> 0, data |-> "[DONE]", msg |-> "", type |-> "sentinel"]

\* The loop of generate_stream_response over the tokens the turn yields.
RECURSIVE rechunk(_, _, _)
rechunk(tokens, current_chunk, frames) ==
    IF tokens = <<>>
    THEN [current_chunk |-> current_chunk, frames |-> frames]
    ELSE LET token == Head(tokens)
             chunk == current_chunk \o token
         IN  IF token \in Punctuation \/ Len(chunk) >= ChunkLength
             THEN rechunk(Tail(tokens), "", Append(frames, DataFrame(chunk)))
             ELSE rechunk(Tail(tokens), chunk, frames)

\* The frames generate_stream_response yields for a turn that yielded tokens
\* and ended as pc.  A turn that ends with an exception ends the response
\* with it: the exception leaves the async for, past the flush and the
\* sentinel.  So does a response that is closed because its consumer went.
generate_stream_response(tokens, pc) ==
    LET loop == rechunk(tokens, "", <<>>)
    IN  IF pc \in {"raised", "closed"}
        THEN loop.frames
        ELSE loop.frames
             \o (IF loop.current_chunk # "" THEN <<DataFrame(loop.current_chunk)>> ELSE <<>>)
             \o <<DoneFrame>>

\* -------------------------------------------------------------------- Tools
\* What a tool body comes to inside its try block: a value it returns, or an
\* exception.
Returns(value) == [raised |-> "none", value |-> value]

Raises(exc) == [raised |-> exc, value |-> <<>>]

\* The texts the tools return, as the pair of their fixed prefix and what
\* follows it.
SearchResults(items) == <<"results", items>>

SearchFailed(exc) == <<"search_failed", exc>>

FileMissing(path) == <<"image_file_missing", path>>

AnalysisResult(description) == <<"image_analysis_result", description>>

AnalysisFailed(exc) == <<"image_analysis_failed", exc>>

ToolPrefixes ==
    {"results", "search_failed", "image_file_missing", "image_analysis_result",
     "image_analysis_failed"}

\* What the search wrapper hands back for a query: it raises, or it returns a
\* mapping that may lack 'organic_results' and whose entries may lack a key.
Queries == {"q1", "q2"}

SearchEntries ==
    {[snippet |-> "s1", title |-> "t1", whole |-> TRUE],
     [snippet |-> "s2", title |-> "t2", whole |-> TRUE],
     [snippet |-> "", title |-> "t3", whole |-> FALSE]}

RECURSIVE EntryLists(_)
EntryLists(n) ==
    IF n = 0 THEN {<<>>}
    ELSE EntryLists(n - 1)
         \cup {Append(l, e) : l \in {k \in EntryLists(n - 1) : Len(k) = n - 1},
                              e \in SearchEntries}

SearchReplies ==
    {[entries |-> <<>>, organic |-> FALSE, raises |-> e] : e \in {"network", "quota"}}
    \cup {[entries |-> <<>>, organic |-> FALSE, raises |-> "none"]}
    \cup {[entries |-> l, organic |-> TRUE, raises |-> "none"] : l \in EntryLists(MaxResults)}

web_search_body(query, reply) ==
    IF reply.raises # "none" THEN Raises(reply.raises)
    ELSE IF ~reply.organic THEN Raises("KeyError")
    ELSE IF \E i \in 1..Len(reply.entries) : ~reply.entries[i].whole THEN Raises("KeyError")
    ELSE Returns(SearchResults([i \in 1..Len(reply.entries) |->
                    <<reply.entries[i].title, reply.entries[i].snippet>>]))

web_search(query, reply) ==
    LET body == web_search_body(query, reply)
    IN  Outcome(<<>>, "done",
                IF body.raised # "none" THEN SearchFailed(body.raised) ELSE body.value,
                <<>>, [query |-> query, reply |-> reply])

\* The input of image_analysis: a mapping with or without image_url, or
\* something that is no mapping.  files: the paths that exist and those
\* among them that can be read.  vision: what the vision model call comes to.
Paths == {"p1", "p2"}

RequestData ==
    [analysis_type : {"general", "text"}, image_url : Paths \cup {"none"}, mapping : {TRUE}]
    \cup {[analysis_type |-> "general", image_url |-> "none", mapping |-> FALSE]}

FileSystems == {fs \in [exists : SUBSET Paths, readable : SUBSET Paths] :
                    fs.readable \subseteq fs.exists}

VisionOutcomes == {"d1", "None", "no_choices", "api_error"}

\* called: the vision model was called.
image_analysis_body_mut_nocheck(request_data, files, vision) ==
    IF ~request_data.mapping THEN [called |-> FALSE, raised |-> "TypeError", value |-> <<>>]
    ELSE IF request_data.image_url = "none"
    THEN [called |-> FALSE, raised |-> "ValidationError", value |-> <<>>]
    ELSE IF request_data.image_url \notin files.readable
    THEN [called |-> FALSE, raised |-> "OSError", value |-> <<>>]
    ELSE CASE vision = "api_error" ->
                [called |-> TRUE, raised |-> "APIError", value |-> <<>>]
           [] vision = "no_choices" ->
                [called |-> TRUE, raised |-> "IndexError", value |-> <<>>]
           [] OTHER ->
                [called |-> TRUE, raised |-> "none", value |-> AnalysisResult(vision)]

image_analysis_body(request_data, files, vision) ==
    IF ~request_data.mapping THEN [called |-> FALSE, raised |-> "TypeError", value |-> <<>>]
    ELSE IF request_data.image_url = "none"
    THEN [called |-> FALSE, raised |-> "ValidationError", value |-> <<>>]
    ELSE IF request_data.image_url \notin files.exists
    THEN [called |-> FALSE, raised |-> "none", value |-> FileMissing(request_data.image_url)]
    ELSE IF request_data.image_url \notin files.readable
    THEN [called |-> FALSE, raised |-> "OSError", value |-> <<>>]
    ELSE CASE vision = "api_error" ->
                [called |-> TRUE, raised |-> "APIError", value |-> <<>>]
           [] vision = "no_choices" ->
                [called |-> TRUE, raised |-> "IndexError", value |-> <<>>]
           [] OTHER ->
                [called |-> TRUE, raised |-> "none", value |-> AnalysisResult(vision)]

image_analysis(request_data, files, vision) ==
    LET body == image_analysis_body(request_data, files, vision)
    IN  Outcome(<<>>, "done",
                IF body.raised # "none" THEN AnalysisFailed(body.raised) ELSE body.value,
                <<>>, [called |-> body.called, files |-> files, request |-> request_data])

\* ------------------------------------------------------------------- state
EmptyRedis ==
    [chat_history |-> [a \in Accounts |-> NoKey],
     chat_summary |-> [a \in Accounts |-> NoKey],
     summary_hash |-> [a \in Accounts |-> NoKey],
     user_profile |-> [a \in Accounts |-> NoKey],
     conv_count |-> [a \in Accounts |-> NoKey],
     conv_metadata |-> [a \in Accounts |-> NoKey]]

\* A frame holds a call in flight; when the call ends the frame is free again
\* and what the call came to is in ended.
IdleFrame ==
    [op |-> "none", acct |-> "a1", pc |-> "idle", loc |-> <<>>,
     clean |-> FALSE, prev |-> NoKey]

NothingEnded ==
    [op |-> "none", acct |-> "a1", pc |-> "idle", ret |-> EmptyText, obs |-> NoObs]

NoObservation == [first |-> NoKey, last |-> NoKey]

\* The frame of a request slot: the locals of chat_with_legal_agent, the
\* fragments it has yielded (out), and as history the exception the agent
\* raised (err) and whether the background tasks were created (scheduled).
IdleTurn ==
    [acct |-> "a1", input |-> "", pc |-> "idle", loc |-> <<>>, context |-> <<>>,
     full_response |-> <<>>, tool_calls_log |-> <<>>, out |-> <<>>,
     err |-> "none", scheduled |-> FALSE]

NoUpdate ==
    [n |-> 0, acct |-> "a1", count |-> 0, called |-> FALSE, ret |-> EmptyText,
     before |-> <<NoKey, NoKey>>, after |-> <<NoKey, NoKey>>]

Init ==
    /\ redis = EmptyRedis
    /\ clock = 1
    /\ appended = [a \in Accounts |-> <<>>]
    /\ svc = [c \in Callers |-> IdleFrame]
    /\ ended = NothingEnded
    /\ sumobs = [a \in Accounts |-> NoObservation]
    /\ turn = [t \in Turns |-> IdleTurn]
    /\ ready = <<>>
    /\ bg = <<>>
    /\ finalized = [a \in Accounts |-> 0]
    /\ started = 0
    /\ updobs = NoUpdate

Pair(role, content) == <<role, content>>

\* A message list a caller of save_chat_history builds itself: n messages of
\* alternating roles, stamped by the caller (instant 0).
DirectMessages(n) ==
    [i \in 1..n |-> Message(IF i % 2 = 1 THEN "user" ELSE "assistant",
                            IF i % 2 = 1 THEN "X" ELSE "Y", 0)]

Pairs(messages) == [i \in 1..Len(messages) |-> Pair(messages[i].role, messages[i].content)]

\* ----------------------------------------------------------------- history
\* Something other than a frame's own call touched account a's keys: the
\* calls of generate_summary in flight for a are no longer undisturbed, and
\* the next call does not directly follow the last one.
Disturbed(frames, a) ==
    [c \in Callers |->
        IF frames[c].acct = a /\ frames[c].pc = "llm"
        THEN [frames[c] EXCEPT !.clean = FALSE] ELSE frames[c]]

Disturb(a) ==
    /\ svc' = Disturbed(svc, a)
    /\ sumobs' = [sumobs EXCEPT ![a] = NoObservation]

CallRecord(res) ==
    [ret |-> res.ret, invoked |-> res.obs.invoked, failed |-> res.obs.how = "failed"]

\* A generate_summary call of account a ended as res.  clean: nothing else
\* touched the account's keys while it ran; prev: the call it directly
\* followed, if any.  first and last are then two successive calls.
Observed(res, clean, prev) ==
    [first |-> IF clean THEN prev ELSE NoKey,
     last |-> IF clean THEN Stored(CallRecord(res)) ELSE NoKey]

InFlight(a, c) == \E d \in Callers \ {c} : svc[d].acct = a /\ svc[d].pc = "llm"

Free(c) == svc[c].pc = "idle"

EndedCall(op, a, res) ==
    [op |-> op, acct |-> a, pc |-> res.pc, ret |-> res.ret, obs |-> res.obs]

\* ----------------------------------------------- direct calls of the service
AddMessage(a, role, content) ==
    /\ redis' = add_message(redis, a, role, content, clock)
    /\ clock' = clock + 1
    /\ appended' = [appended EXCEPT ![a] = Append(@, Pair(role, content))]
    /\ Disturb(a)
    /\ ended' = NothingEnded
    /\ UNCHANGED turnvars

SaveChatMessages(a, user_message, assistant_message) ==
    /\ redis' = save_chat_messages(redis, a, user_message, assistant_message, clock)
    /\ clock' = clock + 2
    /\ appended' = [appended EXCEPT ![a] =
            @ \o <<Pair("user", user_message), Pair("assistant", assistant_message)>>]
    /\ Disturb(a)
    /\ ended' = NothingEnded
    /\ UNCHANGED turnvars

SaveChatHistory(a, n) ==
    /\ redis' = save_chat_history(redis, a, DirectMessages(n))
    /\ appended' = [appended EXCEPT ![a] = Pairs(DirectMessages(n))]
    /\ Disturb(a)
    /\ ended' = NothingEnded
    /\ UNCHANGED clock
    /\ UNCHANGED turnvars

\* clear_chat_history is a plain function: it has ended when it returns.
EndedClear(a) == [NothingEnded EXCEPT !.op = "clear_chat_history", !.acct = a, !.pc = "done"]

ClearChatHistory(a) ==
    /\ redis' = clear_chat_history(redis, a)
    /\ appended' = [appended EXCEPT ![a] = <<>>]
    /\ Disturb(a)
    /\ ended' = EndedClear(a)
    /\ UNCHANGED clock
    /\ UNCHANGED turnvars

\* ---- time passing: the keys written with setex run out
SummaryLastHalfSecond(a) ==
    /\ redis.chat_summary[a] # NoKey
    /\ Value(redis.chat_summary[a]).ttl = "live"
    /\ redis' = [redis EXCEPT !.chat_summary[a] = Stored([Value(@) EXCEPT !.ttl = "last"])]
    /\ Disturb(a)
    /\ ended' = NothingEnded
    /\ UNCHANGED <<clock, appended>>
    /\ UNCHANGED turnvars

ExpireSummary(a) ==
    /\ redis.chat_summary[a] # NoKey
    /\ redis' = [redis EXCEPT !.chat_summary[a] = NoKey]
    /\ Disturb(a)
    /\ ended' = NothingEnded
    /\ UNCHANGED <<clock, appended>>
    /\ UNCHANGED turnvars

ExpireHash(a) ==
    /\ redis.summary_hash[a] # NoKey
    /\ redis' = [redis EXCEPT !.summary_hash[a] = NoKey]
    /\ Disturb(a)
    /\ ended' = NothingEnded
    /\ UNCHANGED <<clock, appended>>
    /\ UNCHANGED turnvars

\* ---- generate_summary called directly
GenerateSummaryCall(c, a, down) ==
    /\ Free(c)
    /\ LET res == generate_summary_start(redis, a, down)
           clean == ~InFlight(a, c)
           prev == IF clean THEN sumobs[a].last ELSE NoKey
       IN /\ redis' = res.r
          /\ IF res.pc = "llm"
             THEN /\ svc' = [Disturbed(svc, a) EXCEPT ![c] =
                        [op |-> "generate_summary", acct |-> a, pc |-> "llm",
                         loc |-> res.loc, clean |-> clean, prev |-> prev]]
                  /\ sumobs' = [sumobs EXCEPT ![a] = NoObservation]
                  /\ ended' = NothingEnded
             ELSE /\ svc' = Disturbed(svc, a)
                  /\ sumobs' = [sumobs EXCEPT ![a] = Observed(res, clean, prev)]
                  /\ ended' = EndedCall("generate_summary", a, res)
    /\ UNCHANGED <<clock, appended>>
    /\ UNCHANGED turnvars

GenerateSummaryReturn(c, outcome) ==
    /\ svc[c].op = "generate_summary"
    /\ svc[c].pc = "llm"
    /\ LET a == svc[c].acct
           res == generate_summary_resume(redis, a, svc[c].loc, outcome)
       IN /\ redis' = res.r
          /\ svc' = [Disturbed(svc, a) EXCEPT ![c] = IdleFrame]
          /\ sumobs' = [sumobs EXCEPT ![a] = Observed(res, svc[c].clean, svc[c].prev)]
          /\ ended' = EndedCall("generate_summary", a, res)
    /\ UNCHANGED <<clock, appended>>
    /\ UNCHANGED turnvars

\* ---- get_user_profile and get_conversation_context called directly
\* A call of caller c for account a comes to res: it is suspended in c's
\* frame, or it has ended.
DirectCall(c, a, op, res) ==
    /\ redis' = res.r
    /\ svc' = [Disturbed(svc, a) EXCEPT ![c] =
                    IF res.pc \in {"done", "raised"} THEN IdleFrame
                    ELSE [op |-> op, acct |-> a, pc |-> res.pc, loc |-> res.loc,
                          clean |-> FALSE, prev |-> NoKey]]
    /\ ended' = IF res.pc \in {"done", "raised"} THEN EndedCall(op, a, res)
                ELSE NothingEnded
    /\ sumobs' = [sumobs EXCEPT ![a] = NoObservation]
    /\ UNCHANGED <<clock, appended>>
    /\ UNCHANGED turnvars

GetUserProfileCall(c, a, down) ==
    /\ Free(c)
    /\ DirectCall(c, a, "get_user_profile", get_user_profile_start(redis, a, down))

GetUserProfileReturn(c, outcome) ==
    /\ svc[c].op = "get_user_profile"
    /\ svc[c].pc = "llm"
    /\ DirectCall(c, svc[c].acct, "get_user_profile",
                  get_user_profile_resume(redis, svc[c].acct, svc[c].loc, outcome))

GetConversationContextCall(c, a, strategy, down) ==
    /\ Free(c)
    /\ DirectCall(c, a, "get_conversation_context",
                  get_conversation_context_start(redis, a, strategy, down))

GetContextSummaryReturn(c, outcome, down) ==
    /\ svc[c].op = "get_conversation_context"
    /\ svc[c].pc = "summary_llm"
    /\ DirectCall(c, svc[c].acct, "get_conversation_context",
                  get_conversation_context_summary_done(redis, svc[c].acct, svc[c].loc,
                                                        outcome, down))

GetContextProfileReturn(c, outcome) ==
    /\ svc[c].op = "get_conversation_context"
    /\ svc[c].pc = "profile_llm"
    /\ DirectCall(c, svc[c].acct, "get_conversation_context",
                  get_conversation_context_profile_done(redis, svc[c].acct, svc[c].loc,
                                                        outcome))

ExpireProfile(a) ==
    /\ redis.user_profile[a] # NoKey
    /\ redis' = [redis EXCEPT !.user_profile[a] = NoKey]
    /\ ended' = NothingEnded
    /\ UNCHANGED <<clock, appended, svc, sumobs>>
    /\ UNCHANGED turnvars

\* ------------------------------------------------------------ a turn
\* A turn is over when its generator has ended: normally (pc "done"), after
\* the yield of an except clause ("error"), or with an exception ("raised").
\* Its slot is then free again and what it came to is in ended.
Over(fr) == fr.pc \in {"done", "error", "raised"}

\* What a turn that is over came to, as its caller sees it.
EndedTurn(t, fr) ==
    [op |-> "chat_with_legal_agent", acct |-> fr.acct, pc |-> fr.pc, ret |-> fr.out,
     obs |-> [NoObs EXCEPT !.slot = t, !.err = fr.err, !.scheduled = fr.scheduled,
                           !.fragments = Len(fr.full_response), !.input = fr.input]]

\* The turn of slot t has run up to its next suspension, coming to res.
TurnStep(t, res) ==
    /\ redis' = res.r
    /\ turn' = [turn EXCEPT ![t] = IF Over(res.fr) THEN IdleTurn ELSE res.fr]
    /\ appended' = IF res.fr.err = "context length" /\ res.fr.pc = "raised"
                   THEN [appended EXCEPT ![res.fr.acct] = <<>>] ELSE appended
    /\ ended' = IF Over(res.fr) THEN EndedTurn(t, res.fr) ELSE NothingEnded
    /\ UNCHANGED <<clock, svc, sumobs, ready, bg, finalized, updobs>>

\* A request arrives: chat_with_legal_agent runs up to its first suspension.
ChatStart(t, a, input, down) ==
    /\ turn[t].pc = "idle"
    /\ started' = started + 1
    /\ TurnStep(t, chat_after_context(
                        [IdleTurn EXCEPT !.acct = a, !.input = input],
                        get_conversation_context_start(redis, a, "hybrid", down),
                        "agent_input" \in down))

ChatSummaryReturn(t, outcome, down) ==
    /\ turn[t].pc = "summary_llm"
    /\ UNCHANGED started
    /\ TurnStep(t, chat_after_context(
                        turn[t],
                        get_conversation_context_summary_done(
                            redis, turn[t].acct, turn[t].loc, outcome, "profile" \in down),
                        "agent_input" \in down))

ChatProfileReturn(t, outcome, down) ==
    /\ turn[t].pc = "profile_llm"
    /\ UNCHANGED started
    /\ TurnStep(t, chat_after_context(
                        turn[t],
                        get_conversation_context_profile_done(
                            redis, turn[t].acct, turn[t].loc, outcome),
                        down))

\* The agent stream hands over a chunk with "output": the token is buffered
\* and yielded to the consumer.
AgentOutput(t, token) ==
    /\ turn[t].pc = "stream"
    /\ turn' = [turn EXCEPT ![t].full_response = Append(@, token),
                            ![t].out = Append(@, token)]
    /\ ended' = NothingEnded
    /\ UNCHANGED <<redis, clock, appended, svc, sumobs, ready, bg, finalized, started,
                   updobs>>

\* The agent stream hands over a chunk with "intermediate_steps".
AgentSteps(t) ==
    /\ turn[t].pc = "stream"
    /\ turn' = [turn EXCEPT ![t].tool_calls_log = Append(@, "steps")]
    /\ ended' = NothingEnded
    /\ UNCHANGED <<redis, clock, appended, svc, sumobs, ready, bg, finalized, started,
                   updobs>>

\* The two asyncio.create_task calls of the finalization, for the n-th
\* finalized turn of the account: the pair of tasks joins the event loop's
\* queue, save_conversation first, and neither is awaited.
create_tasks_mut_awaits(queue, fr, n) == queue

create_tasks_mut_first(queue, fr, n) ==
    Append(queue,
           [n |-> n, acct |-> fr.acct, user_input |-> fr.input,
            agent_response |-> fr.full_response[1],
            metadata |-> Stored([tool_calls |-> fr.tool_calls_log])])

create_tasks(queue, fr, n) ==
    Append(queue,
           [n |-> n, acct |-> fr.acct, user_input |-> fr.input,
            agent_response |-> join(fr.full_response),
            metadata |-> Stored([tool_calls |-> fr.tool_calls_log])])

\* The agent stream ends: with a non-empty buffer the two background tasks
\* are created, save_conversation first; the turn is over.
AgentEnd_mut_always(t) ==
    /\ turn[t].pc = "stream"
    /\ LET fr == turn[t]
           a == fr.acct
           over == [fr EXCEPT !.pc = "done", !.scheduled = TRUE]
       IN /\ turn' = [turn EXCEPT ![t] = IdleTurn]
          /\ ready' = create_tasks(ready, fr, finalized[a] + 1)
          /\ finalized' = [finalized EXCEPT ![a] = @ + 1]
          /\ ended' = EndedTurn(t, over)
    /\ UNCHANGED <<redis, clock, appended, svc, sumobs, bg, started, updobs>>

AgentEnd(t) ==
    /\ turn[t].pc = "stream"
    /\ LET fr == turn[t]
           a == fr.acct
           finalizes == fr.full_response # <<>>
           over == [fr EXCEPT !.pc = "done", !.scheduled = finalizes]
       IN /\ turn' = [turn EXCEPT ![t] = IdleTurn]
          /\ ready' = IF finalizes THEN create_tasks(ready, fr, finalized[a] + 1) ELSE ready
          /\ finalized' = IF finalizes THEN [finalized EXCEPT ![a] = @ + 1] ELSE finalized
          /\ ended' = EndedTurn(t, over)
    /\ UNCHANGED <<redis, clock, appended, svc, sumobs, bg, started, updobs>>

\* The agent invocation raises.
AgentRaise(t, err) ==
    /\ turn[t].pc = "stream"
    /\ UNCHANGED started
    /\ TurnStep(t, chat_fail(redis, turn[t], err))

\* The model call behind the agent stream stalls: it neither returns nor
\* raises.  Nothing in chat_with_legal_agent, the agent executor's
\* configuration or the model client's arms a timer, so the turn stays
\* suspended at the stream.
AgentStall(t) ==
    /\ turn[t].pc = "stream"
    /\ turn' = [turn EXCEPT ![t].pc = "stalled"]
    /\ ended' = NothingEnded
    /\ UNCHANGED <<redis, clock, appended, svc, sumobs, ready, bg, finalized, started,
                   updobs>>

\* The consumer of the response goes away in the middle of the stream, the
\* turn being suspended after a fragment it yielded.  The generator is not
\* resumed normally any more: it is closed (GeneratorExit at its yield) or
\* its task is cancelled (CancelledError at its await), and neither is an
\* Exception, so no except clause and no finalization runs.
ConsumerDisconnect(t) ==
    /\ turn[t].pc = "stream"
    /\ turn[t].out # <<>>
    /\ turn' = [turn EXCEPT ![t] = IdleTurn]
    /\ ended' = EndedTurn(t, [turn[t] EXCEPT !.pc = "closed"])
    /\ UNCHANGED <<redis, clock, appended, svc, sumobs, ready, bg, finalized, started,
                   updobs>>

\* ------------------------------------------------- the background tasks
\* The event loop runs the first steps of the two tasks of the oldest
\* finalized turn, one after the other (they were queued together):
\* save_conversation up to its first suspension, then
\* update_conversation_summary up to its first suspension.
\* What the background tasks that ran in the last step came to: how
\* save_conversation and update_conversation_summary stand ("none" for a
\* task that did not run in the step), and the store operations that failed.
EndedTasks(job, save_pc, update_pc, downSave, downUpdate) ==
    [op |-> "background_tasks", acct |-> job.acct, pc |-> <<save_pc, update_pc>>,
     ret |-> EmptyText,
     obs |-> [n |-> job.n, down_save |-> downSave, down_update |-> downUpdate]]

StartTasks_mut_update_first(downSave, downUpdate) ==
    /\ ready # <<>>
    /\ LET job == Head(ready)
           a == job.acct
           u0 == update_conversation_summary_start(redis, a, FALSE, downUpdate)
           s == save_conversation_start(u0.r, a, job.user_input, job.agent_response,
                                        job.metadata, clock, downSave)
           u == [u0 EXCEPT !.r = s.r]
           suspended ==
               (IF s.pc \in {"done", "raised"} THEN <<>>
                ELSE <<[kind |-> "save_conversation", n |-> job.n, acct |-> a,
                        loc |-> s.loc]>>)
               \o
               (IF u.pc \in {"done", "raised"} THEN <<>>
                ELSE <<[kind |-> "update_conversation_summary", n |-> job.n, acct |-> a,
                        loc |-> u.loc]>>)
       IN /\ redis' = u.r
          /\ ready' = Tail(ready)
          /\ bg' = bg \o suspended
          /\ appended' = IF downSave = "messages" THEN appended
                         ELSE [appended EXCEPT ![a] =
                                  @ \o <<Pair("user", job.user_input),
                                         Pair("assistant", job.agent_response)>>]
          /\ updobs' = IF downUpdate THEN updobs
                       ELSE [n |-> job.n, acct |-> a, count |-> incr(s.r, a),
                             called |-> u.obs.how # "skipped", ret |-> u.ret,
                             before |-> <<s.r.chat_summary[a], s.r.summary_hash[a]>>,
                             after |-> <<u.r.chat_summary[a], u.r.summary_hash[a]>>]
          /\ ended' = EndedTasks(job, s.pc, u.pc, downSave, downUpdate)
    /\ clock' = clock + 2
    /\ UNCHANGED <<svc, sumobs, turn, finalized, started>>

StartTasks(downSave, downUpdate) ==
    /\ ready # <<>>
    /\ LET job == Head(ready)
           a == job.acct
           s == save_conversation_start(redis, a, job.user_input, job.agent_response,
                                        job.metadata, clock, downSave)
           u == update_conversation_summary_start(s.r, a, FALSE, downUpdate)
           suspended ==
               (IF s.pc \in {"done", "raised"} THEN <<>>
                ELSE <<[kind |-> "save_conversation", n |-> job.n, acct |-> a,
                        loc |-> s.loc]>>)
               \o
               (IF u.pc \in {"done", "raised"} THEN <<>>
                ELSE <<[kind |-> "update_conversation_summary", n |-> job.n, acct |-> a,
                        loc |-> u.loc]>>)
       IN /\ redis' = u.r
          /\ ready' = Tail(ready)
          /\ bg' = bg \o suspended
          /\ appended' = IF downSave = "messages" THEN appended
                         ELSE [appended EXCEPT ![a] =
                                  @ \o <<Pair("user", job.user_input),
                                         Pair("assistant", job.agent_response)>>]
          /\ updobs' = IF downUpdate THEN updobs
                       ELSE [n |-> job.n, acct |-> a, count |-> incr(s.r, a),
                             called |-> u.obs.how # "skipped", ret |-> u.ret,
                             before |-> <<s.r.chat_summary[a], s.r.summary_hash[a]>>,
                             after |-> <<u.r.chat_summary[a], u.r.summary_hash[a]>>]
          /\ ended' = EndedTasks(job, s.pc, u.pc, downSave, downUpdate)
    /\ clock' = clock + 2
    /\ UNCHANGED <<svc, sumobs, turn, finalized, started>>

Without(s, i) == SubSeq(s, 1, i - 1) \o SubSeq(s, i + 1, Len(s))

\* A suspended save_conversation resumes at the end of the profile's model call.
SaveProfileReturn(i, outcome) ==
    /\ i \in 1..Len(bg)
    /\ bg[i].kind = "save_conversation"
    /\ LET s == save_conversation_resume(redis, bg[i].acct, bg[i].loc, outcome)
       IN /\ redis' = s.r
          /\ ended' = EndedTasks(bg[i], s.pc, "none",
                                 IF outcome = "setex_fail" THEN "profile" ELSE "none", FALSE)
    /\ bg' = Without(bg, i)
    /\ UNCHANGED <<clock, appended, svc, sumobs, turn, ready, finalized, started, updobs>>

\* A suspended update_conversation_summary resumes at the end of the
\* summary's model call.
UpdateSummaryReturn(i, outcome) ==
    /\ i \in 1..Len(bg)
    /\ bg[i].kind = "update_conversation_summary"
    /\ LET u == update_conversation_summary_resume(redis, bg[i].acct, bg[i].loc, outcome)
       IN /\ redis' = u.r
          /\ ended' = EndedTasks(bg[i], "none", u.pc, "none",
                                 outcome \in {"setex1_fail", "setex2_fail"})
    /\ bg' = Without(bg, i)
    /\ UNCHANGED <<clock, appended, svc, sumobs, turn, ready, finalized, started, updobs>>

\* ----------------------------------------------------------- specifications
\* The store of two accounts under direct calls of its methods.
StoreNext ==
    \/ \E a \in Accounts, role \in Roles, content \in Contents :
            clock <= MaxClock /\ AddMessage(a, role, content)
    \/ \E a \in Accounts : clock < MaxClock /\ SaveChatMessages(a, "X", "Y")
    \/ \E a \in Accounts, n \in {MaxDirectLen - 1, MaxDirectLen} : SaveChatHistory(a, n)
    \/ \E a \in Accounts : ClearChatHistory(a)

StoreSpec == Init /\ [][StoreNext]_vars

\* The summary engine of one account under direct calls, appends, clears
\* and expiry.
SummaryNext ==
    \/ clock <= MaxAppends /\ AddMessage("a1", "user", "X")
    \/ ClearChatHistory("a1")
    \/ SummaryLastHalfSecond("a1")
    \/ ExpireSummary("a1")
    \/ ExpireHash("a1")
    \/ \E down \in BOOLEAN : GenerateSummaryCall("c1", "a1", down)
    \/ \E outcome \in SummaryOutcomes : GenerateSummaryReturn("c1", outcome)

SummarySpec == Init /\ [][SummaryNext]_vars

\* Summary generations of one account by two callers at once, while
\* messages are appended, the history is cleared and keys expire; no store
\* failure between the two writes of a generation.
PairOutcomes == SummaryOutcomes \ {"setex2_fail"}

PairNext ==
    \/ clock <= MaxAppends /\ AddMessage("a1", "user", "X")
    \/ ClearChatHistory("a1")
    \/ ExpireSummary("a1")
    \/ ExpireHash("a1")
    \/ \E c \in Callers : GenerateSummaryCall(c, "a1", FALSE)
    \/ \E c \in Callers, outcome \in PairOutcomes : GenerateSummaryReturn(c, outcome)

PairSpec == Init /\ [][PairNext]_vars

\* The profile engine and the context assembler of one account under direct
\* calls, while turns are appended and keys expire.
DownSets == {{}, {"history"}, {"summary"}, {"profile"}}

ContextNext ==
    \/ clock < MaxContextClock /\ SaveChatMessages("a1", "X", "Y")
    \/ clock <= MaxContextClock /\ AddMessage("a1", "user", "X")
    \/ ExpireProfile("a1")
    \/ ExpireSummary("a1")
    \/ \E down \in BOOLEAN : GetUserProfileCall("c1", "a1", down)
    \/ \E outcome \in ProfileOutcomes : GetUserProfileReturn("c1", outcome)
    \/ \E strategy \in Strategies, down \in DownSets :
            GetConversationContextCall("c1", "a1", strategy, down)
    \/ \E outcome \in SummaryOutcomes, down \in BOOLEAN :
            GetContextSummaryReturn("c1", outcome, down)
    \/ \E outcome \in ProfileOutcomes : GetContextProfileReturn("c1", outcome)

ContextSpec == Init /\ [][ContextNext]_vars

\* The turns of one account, with failing store operations and model calls.
TurnDownSets == {{}, {"history"}, {"summary"}, {"profile"}, {"agent_input"}}

\* The steps the event loop takes by itself: model calls that return, the
\* agent stream going on, background tasks running.
TurnSteps ==
    \/ \E t \in Turns, outcome \in {"r1", "llm_fail"},
          down \in {{}, {"profile"}, {"agent_input"}} :
            ChatSummaryReturn(t, outcome, down)
    \/ \E t \in Turns, outcome \in {"ok", "llm_fail"}, down \in BOOLEAN :
            ChatProfileReturn(t, outcome, down)
    \/ \E t \in Turns, token \in Tokens :
            Len(turn[t].full_response) < MaxTokens /\ AgentOutput(t, token)
    \/ \E t \in Turns : Len(turn[t].tool_calls_log) < MaxSteps /\ AgentSteps(t)
    \/ \E t \in Turns : AgentEnd(t)
    \/ \E t \in Turns, err \in Errors : AgentRaise(t, err)
    \/ \E downSave \in SaveDown, downUpdate \in BOOLEAN : StartTasks(downSave, downUpdate)
    \/ \E i \in 1..Len(bg), outcome \in {"ok", "llm_fail"} : SaveProfileReturn(i, outcome)

TurnNext ==
    \/ \E t \in Turns, down \in TurnDownSets :
            started < MaxTurns /\ ChatStart(t, "a1", "X", down)
    \/ \E t \in Turns : AgentStall(t)
    \/ \E t \in Turns : ConsumerDisconnect(t)
    \/ ExpireProfile("a1")
    \/ TurnSteps

\* The event loop keeps running what is ready, and a model call that does
\* not stall comes back.
TurnSpec == Init /\ [][TurnNext]_vars /\ WF_vars(TurnSteps)

\* The refresh cadence of one account whose counter is one short of the
\* ceiling: CounterCeiling - 1 turns were finalized one after the other, the
\* history holds the last max_history_messages messages, the profile is
\* cached, and the summary and its hash have run out.
AgedHistory ==
    [i \in 1..max_history_messages |->
        Message(IF i % 2 = 1 THEN "user" ELSE "assistant",
                IF i % 2 = 1 THEN "X" ELSE "Y", i - max_history_messages)]

AgedRedis ==
    [EmptyRedis EXCEPT
        !.chat_history["a1"] = Stored(json_dumps(AgedHistory)),
        !.conv_count["a1"] = Stored(CounterCeiling - 1),
        !.user_profile["a1"] = Stored(json_dumps_profile(Profile(CounterCeiling - 1, TRUE)))]

CadenceInit ==
    /\ redis = AgedRedis
    /\ clock = 1
    /\ appended = [a \in Accounts |-> IF a = "a1" THEN Pairs(AgedHistory) ELSE <<>>]
    /\ svc = [c \in Callers |-> IdleFrame]
    /\ ended = NothingEnded
    /\ sumobs = [a \in Accounts |-> NoObservation]
    /\ turn = [t \in Turns |-> IdleTurn]
    /\ ready = <<>>
    /\ bg = <<>>
    /\ finalized = [a \in Accounts |-> IF a = "a1" THEN CounterCeiling - 1 ELSE 0]
    /\ started = 0
    /\ updobs = NoUpdate

CadenceNext ==
    \/ \E t \in Turns : started < MaxCadenceTurns /\ ChatStart(t, "a1", "X", {})
    \/ \E t \in Turns, outcome \in {"r1", "llm_fail"} : ChatSummaryReturn(t, outcome, {})
    \/ \E t \in Turns : turn[t].full_response = <<>> /\ AgentOutput(t, "Y")
    \/ \E t \in Turns : turn[t].full_response # <<>> /\ AgentEnd(t)
    \/ StartTasks("none", FALSE)
    \/ \E i \in 1..Len(bg) : UpdateSummaryReturn(i, "r1")

CadenceSpec == CadenceInit /\ [][CadenceNext]_vars

\* The turns of one account with different inputs and responses, the store
\* and the model up, from the first turn on.
Inputs == {"X", "W"}

PersistNext ==
    \/ \E t \in Turns, input \in Inputs :
            started < MaxPersistTurns /\ ChatStart(t, "a1", input, {})
    \/ \E t \in Turns, outcome \in {"r1", "llm_fail"} : ChatSummaryReturn(t, outcome, {})
    \/ \E t \in Turns, token \in Tokens :
            Len(turn[t].full_response) < MaxTokens /\ AgentOutput(t, token)
    \/ \E t \in Turns : AgentEnd(t)
    \/ StartTasks("none", FALSE)

PersistSpec == Init /\ [][PersistNext]_vars

\* The metadata log of an account that had MetadataCap - 1 turns persisted
\* on one day, while further turns of the account are persisted.
AgedMetadata ==
    [i \in 1..(MetadataCap - 1) |->
        [timestamp |-> i - MetadataCap, user_input |-> "X", agent_response_length |-> 1,
         metadata |-> [tool_calls |-> <<>>]]]

MetadataInit ==
    /\ redis = [AgedRedis EXCEPT
                    !.conv_metadata["a1"] = Stored(json_dumps_metadata(AgedMetadata))]
    /\ clock = 1
    /\ appended = [a \in Accounts |-> IF a = "a1" THEN Pairs(AgedHistory) ELSE <<>>]
    /\ svc = [c \in Callers |-> IdleFrame]
    /\ ended = NothingEnded
    /\ sumobs = [a \in Accounts |-> NoObservation]
    /\ turn = [t \in Turns |-> IdleTurn]
    /\ ready = <<>>
    /\ bg = <<>>
    /\ finalized = [a \in Accounts |-> IF a = "a1" THEN CounterCeiling - 1 ELSE 0]
    /\ started = 0
    /\ updobs = NoUpdate

MetadataNext ==
    \/ \E t \in Turns : started < MaxMetadataTurns /\ ChatStart(t, "a1", "X", {})
    \/ \E t \in Turns, outcome \in {"r1", "llm_fail"} : ChatSummaryReturn(t, outcome, {})
    \/ \E t \in Turns : turn[t].full_response = <<>> /\ AgentOutput(t, "Y")
    \/ \E t \in Turns : turn[t].full_response # <<>> /\ AgentEnd(t)
    \/ StartTasks("none", FALSE)
    \/ \E i \in 1..Len(bg) : UpdateSummaryReturn(i, "r1")

MetadataSpec == MetadataInit /\ [][MetadataNext]_vars

\* clear_chat_history called on key spaces in which each key of each account
\* is there or not: what the other methods of the service have left behind.
UsedHistory == DirectMessages(MaxUsedLen)

UsedKeys ==
    [chat_history |-> Stored(json_dumps(UsedHistory)),
     chat_summary |-> SummaryEntry(llm_summary(UsedHistory, "r1")),
     summary_hash |-> Stored(md5(json_dumps(UsedHistory))),
     user_profile |-> Stored(json_dumps_profile(Profile(1, TRUE))),
     conv_count |-> Stored(1),
     conv_metadata |-> Stored(json_dumps_metadata(
            <<[timestamp |-> 0, user_input |-> "X", agent_response_length |-> 1,
               metadata |-> [tool_calls |-> <<>>]]>>))]

KeySpaces ==
    [chat_history : [Accounts -> {NoKey, UsedKeys.chat_history}],
     chat_summary : [Accounts -> {NoKey, UsedKeys.chat_summary}],
     summary_hash : [Accounts -> {NoKey, UsedKeys.summary_hash}],
     user_profile : [Accounts -> {NoKey, UsedKeys.user_profile}],
     conv_count : [Accounts -> {NoKey, UsedKeys.conv_count}],
     conv_metadata : [Accounts -> {NoKey, UsedKeys.conv_metadata}]]

ClearInit ==
    /\ redis \in KeySpaces
    /\ clock = 1
    /\ appended = [a \in Accounts |-> Pairs(get_chat_history(redis, a))]
    /\ svc = [c \in Callers |-> IdleFrame]
    /\ ended = NothingEnded
    /\ sumobs = [a \in Accounts |-> NoObservation]
    /\ turn = [t \in Turns |-> IdleTurn]
    /\ ready = <<>>
    /\ bg = <<>>
    /\ finalized = [a \in Accounts |-> 0]
    /\ started = 0
    /\ updobs = NoUpdate

ClearNext == \E a \in Accounts : ClearChatHistory(a)

ClearSpec == ClearInit /\ [][ClearNext]_vars

\* The two tools under calls of the agent, each with every input and every
\* outcome of what it calls.
ToolCall(op, res) ==
    /\ ended' = [op |-> op, acct |-> "a1", pc |-> res.pc, ret |-> res.ret, obs |-> res.obs]
    /\ UNCHANGED <<redis, clock, appended, svc, sumobs>>
    /\ UNCHANGED turnvars

WebSearch(query, reply) ==
    /\ query \in Queries
    /\ ToolCall("web_search", web_search(query, reply))

ImageAnalysis(request_data, files, vision) ==
    /\ request_data \in RequestData
    /\ ToolCall("image_analysis", image_analysis(request_data, files, vision))

ToolNext ==
    \/ \E query \in Queries, reply \in SearchReplies : WebSearch(query, reply)
    \/ \E request_data \in RequestData, files \in FileSystems, vision \in VisionOutcomes :
            ImageAnalysis(request_data, files, vision)

ToolSpec == Init /\ [][ToolNext]_vars

\* ------------------------------------------------------------------ claims
\* C1: in every reachable state, for every account, the history that read
\* (get_chat_history) returns holds at most max_history_messages messages.
C1_HistoryBounded ==
    \A a \in Accounts : Len(get_chat_history(redis, a)) <= max_history_messages

\* An append has acted on a full history: 11 or more messages were appended
\* and the stored history holds exactly max_history_messages of them.
C1_Witness ==
    \E a \in Accounts :
        /\ Len(appended[a]) > max_history_messages
        /\ Len(get_chat_history(redis, a)) = max_history_messages

\* C2: read returns the appended messages in the order they were appended
\* (the most recent max_history_messages of them); in particular after
\* append(user, X), append(assistant, Y) on an account without history, read
\* returns exactly two messages with roles [user, assistant] and contents
\* [X, Y].
C2_RoundTrip ==
    \A a \in Accounts :
        /\ Pairs(get_chat_history(redis, a)) = LastN(appended[a], max_history_messages)
        /\ appended[a] = <<Pair("user", "X"), Pair("assistant", "Y")>>
            => LET h == get_chat_history(redis, a)
               IN /\ Len(h) = 2
                  /\ h[1].role = "user" /\ h[1].content = "X"
                  /\ h[2].role = "assistant" /\ h[2].content = "Y"

C2_Witness ==
    \E a \in Accounts :
        /\ appended[a] = <<Pair("user", "X"), Pair("assistant", "Y")>>
        /\ Len(get_chat_history(redis, a)) = 2

\* C3 (as claimed): generate_summary returns the cached summary without a
\* model call only when the stored hash is the hash of the account's current
\* history; when the history has changed since the summary was computed the
\* cached text is not returned.
C3_CacheOnlyWhenHashMatches ==
    (ended.op = "generate_summary" /\ ended.obs.how = "cache") =>
        HistoryHashMatches(redis, ended.acct)

C9_SummaryFailureContained ==
    ended.op = "generate_summary" =>
        /\ ended.pc = "done"
        /\ ended.obs.how = "failed" => ended.ret = EmptyText

\* A call whose model invocation failed has ended.
C9_Witness ==
    /\ ended.op = "generate_summary"
    /\ ended.obs.how = "failed"
    /\ ended.obs.invoked

\* C8 (as claimed): a context assembled with strategy hybrid holds the last 3
\* stored messages and a non-empty summary when more than 3 messages are
\* stored, and the whole stored history and the empty summary otherwise.
C8_Original ==
    (/\ ended.op = "get_conversation_context"
     /\ ended.pc = "done"
     /\ ended.ret.strategy = "hybrid") =>
        LET seen == ended.obs.seen
            n == Len(seen)
        IN  IF n > 3
            THEN /\ ended.ret.history = SubSeq(seen, n - 2, n)
                 /\ ended.ret.summary # EmptyText
            ELSE /\ ended.ret.history = seen
                 /\ ended.ret.summary = EmptyText

\* C8 (amended): a context assembled with strategy hybrid holds, when more
\* than 3 messages are stored, the last 3 of them in order and the text that
\* generate_summary returned, which is non-empty when it comes from the cache
\* and empty when the generation failed; otherwise it holds the whole stored
\* history and the empty summary.
C8_Hybrid ==
    (/\ ended.op = "get_conversation_context"
     /\ ended.pc = "done"
     /\ ended.ret.strategy = "hybrid") =>
        LET seen == ended.obs.seen
            n == Len(seen)
        IN  IF n > 3
            THEN /\ ended.ret.history = SubSeq(seen, n - 2, n)
                 /\ ended.ret.summary = ended.obs.summary
                 /\ ended.obs.how = "cache" => ended.ret.summary # EmptyText
                 /\ ended.obs.how = "failed" => ended.ret.summary = EmptyText
            ELSE /\ ended.ret.history = seen
                 /\ ended.ret.summary = EmptyText

\* A hybrid context over 5 stored messages with a summary the model generated.
C8_Witness ==
    /\ ended.op = "get_conversation_context"
    /\ ended.pc = "done"
    /\ ended.ret.strategy = "hybrid"
    /\ Len(ended.obs.seen) = 5
    /\ Len(ended.ret.history) = 3
    /\ ended.obs.invoked
    /\ ended.ret.summary # EmptyText

\* C10: unless a store operation fails, get_user_profile returns a profile
\* and leaves it in the store; when the inference call or the parsing of its
\* reply fails, the profile returned is the default one.
C10_ProfileAlwaysReturned ==
    (ended.op = "get_user_profile" /\ ended.obs.profile # "store_failed") =>
        /\ ended.pc = "done"
        /\ redis.user_profile[ended.acct] = Stored(json_dumps_profile(ended.ret))
        /\ ended.obs.profile = "inference_failed" => ended.ret = Profile(0, FALSE)

\* A call whose inference failed has returned.
C10_Witness ==
    /\ ended.op = "get_user_profile"
    /\ ended.obs.profile = "inference_failed"
    /\ ended.pc = "done"

\* C5 (as claimed): the update_conversation_summary of the n-th finalized
\* turn of an account calls for a regeneration exactly when n is a multiple
\* of summary_update_threshold; on every other turn it returns the summary
\* that was cached and leaves the stored summary and hash as they were.
C5_Cadence ==
    updobs.n > 0 =>
        /\ updobs.called <=> (updobs.n % summary_update_threshold = 0)
        /\ ~updobs.called =>
              /\ updobs.ret = IF updobs.before[1] # NoKey
                              THEN Value(updobs.before[1]).text ELSE EmptyText
              /\ updobs.after = updobs.before

\* C6 (as claimed): a turn whose agent invocation fails with an error that
\* holds "context length" leaves the account's history empty and its output
\* is exactly the new-session message.
C6_ContextOverflow ==
    (ended.op = "chat_with_legal_agent" /\ ended.obs.err = "context length") =>
        /\ get_chat_history(redis, ended.acct) = <<>>
        /\ ended.ret = <<NewSession>>

\* C7 (as claimed): a turn whose model call stalls eventually ends in error
\* with exactly the timeout apology as its output, and without its background
\* tasks (nothing is persisted for it).
C7_Timeout ==
    \A t \in Turns :
        (turn[t].pc = "stalled") ~>
            (/\ ended.op = "chat_with_legal_agent"
             /\ ended.obs.slot = t
             /\ ended.pc = "error"
             /\ ended.ret = <<TimeoutApology>>
             /\ ~ended.obs.scheduled)

\* C11: a failure inside a background task ends that task and nothing else:
\* no task ends with an exception, the step leaves the turns (and what they
\* have yielded) as they were, and when one of the two tasks of a turn fails
\* at its first store operation the other one still runs (the counter is
\* incremented although the messages could not be saved, the messages are
\* saved although the counter could not be incremented).
C11_TaskFailureContained ==
    [][ended'.op = "background_tasks" =>
          /\ ended'.pc[1] # "raised" /\ ended'.pc[2] # "raised"
          /\ turn' = turn
          /\ (ended'.pc[1] # "none" /\ ended'.pc[2] # "none"
                /\ ~ended'.obs.down_update) =>
                redis'.conv_count[ended'.acct] # redis.conv_count[ended'.acct]
          /\ (ended'.pc[1] # "none" /\ ended'.pc[2] # "none"
                /\ ended'.obs.down_save # "messages") =>
                LET h == get_chat_history(redis', ended'.acct)
                IN  /\ Len(h) >= 2
                    /\ h[Len(h) - 1].timestamp = clock
                    /\ h[Len(h)].timestamp = clock + 1]_vars

\* The tasks of a finalized turn have run with save_conversation failing at
\* its first store operation: it ended without an exception and the counter
\* was incremented.
C11_Witness ==
    /\ ended.op = "background_tasks"
    /\ ended.obs.down_save = "messages"
    /\ ~ended.obs.down_update
    /\ ended.pc = <<"done", "done">>
    /\ redis.conv_count[ended.acct] = Stored(ended.obs.n)

\* C12: when the output of a turn whose agent stream completed with a
\* response ends, its two background tasks have been created and neither has
\* run: the pair is the youngest entry of the event loop's queue.  The end of
\* the response waits for no background task.
C12_Detached ==
    (/\ ended.op = "chat_with_legal_agent"
     /\ ended.pc = "done"
     /\ ended.obs.fragments > 0) =>
        /\ ended.obs.scheduled
        /\ ready # <<>>
        /\ ready[Len(ready)].acct = ended.acct
        /\ ready[Len(ready)].n = finalized[ended.acct]

\* A turn has ended normally while a background task of an earlier turn was
\* still suspended at its model call.
C12_Witness ==
    /\ ended.op = "chat_with_legal_agent"
    /\ ended.pc = "done"
    /\ ended.obs.scheduled
    /\ bg # <<>>
    /\ ready # <<>>

\* C13 (as claimed): the response streamed for a turn to a consumer that
\* stays ends with the sentinel frame, which occurs in it exactly once,
\* however the turn ended.
C13_Sentinel ==
    (ended.op = "chat_with_legal_agent" /\ ended.pc # "closed") =>
        LET frames == generate_stream_response(ended.ret, ended.pc)
        IN  /\ frames # <<>>
            /\ frames[Len(frames)] = DoneFrame
            /\ Cardinality({i \in 1..Len(frames) : frames[i].done}) = 1

\* C14 (as claimed): a turn whose consumer went away in the middle of the
\* stream is still persisted: its background tasks are created, with the
\* response buffered so far.
C14_PersistedAfterDisconnect ==
    (ended.op = "chat_with_legal_agent" /\ ended.pc = "closed") =>
        /\ ended.obs.scheduled
        /\ ready # <<>>
        /\ ready[Len(ready)].acct = ended.acct

\* C15: while the profile does not expire and the persistence tasks do not
\* fail, the stored total_conversations of the account is the number of its
\* finalized turns whose persistence task has run: every finalized turn adds
\* exactly 1, whether or not it refreshes the summary, also while the
\* background tasks of overlapping turns are suspended.
C15_BumpOncePerTurn ==
    \A a \in Accounts :
        finalized[a] > 0 =>
            /\ redis.user_profile[a] # NoKey
            /\ json_loads_profile(Value(redis.user_profile[a])).total_conversations
                    = finalized[a] - Len(SelectSeq(ready, LAMBDA job : job.acct = a))

\* The turn after the one that refreshes the summary has been counted while
\* the refresh of the turn before was still awaiting the model.
C15_Witness ==
    /\ bg # <<>>
    /\ bg[1].kind = "update_conversation_summary"
    /\ finalized["a1"] = CounterCeiling + 1
    /\ ready = <<>>
    /\ json_loads_profile(Value(redis.user_profile["a1"])).total_conversations
            = CounterCeiling + 1

\* C16: a step in which clear_chat_history(a) has run leaves a without
\* history and without cached summary, and leaves every other key of a
\* (summary hash, profile, counter, metadata log) and every key of every
\* other account as it was.
OtherKeys == {"summary_hash", "user_profile", "conv_count", "conv_metadata"}

AllKeys == OtherKeys \cup {"chat_history", "chat_summary"}

C16_ClearFrame ==
    [][ended'.op = "clear_chat_history" =>
          LET a == ended'.acct
          IN /\ redis'.chat_history[a] = NoKey
             /\ redis'.chat_summary[a] = NoKey
             /\ get_chat_history(redis', a) = <<>>
             /\ \A k \in OtherKeys : redis'[k][a] = redis[k][a]
             /\ \A b \in Accounts \ {a} : \A k \in AllKeys : redis'[k][b] = redis[k][b]]_vars

\* An account with every key in use has been cleared next to another
\* account with every key in use.
C16_Witness ==
    /\ ended.op = "clear_chat_history"
    /\ redis.chat_history[ended.acct] = NoKey
    /\ \A k \in OtherKeys : redis[k][ended.acct] = UsedKeys[k]
    /\ \A b \in Accounts \ {ended.acct} : \A k \in AllKeys : redis[k][b] = UsedKeys[k]

\* C17: in every reachable state the conversation counter of every account
\* is at most the ceiling CounterCeiling, also while the update of an
\* overlapping turn awaits the model between its increment and its reset.
C17_CounterBounded ==
    \A a \in Accounts :
        redis.conv_count[a] # NoKey => Value(redis.conv_count[a]) <= CounterCeiling

\* C18: a context assembled with strategy full holds the whole stored history
\* and the empty summary; with strategy summary, no history and the text
\* generate_summary returned; with strategy window, the last 5 stored
\* messages in order (all of them when no more than 5 are stored) and the
\* empty summary.
C18_Strategies ==
    (/\ ended.op = "get_conversation_context"
     /\ ended.pc = "done"
     /\ ended.ret.strategy \in {"full", "summary", "window"}) =>
        LET seen == ended.obs.seen
            n == Len(seen)
        IN  CASE ended.ret.strategy = "full" ->
                    /\ ended.ret.history = seen
                    /\ ended.ret.summary = EmptyText
              [] ended.ret.strategy = "summary" ->
                    /\ ended.ret.history = <<>>
                    /\ ended.ret.summary = ended.obs.summary
              [] OTHER ->
                    /\ ended.ret.history = (IF n > 5 THEN SubSeq(seen, n - 4, n) ELSE seen)
                    /\ ended.ret.summary = EmptyText

\* A window context over 6 stored messages, one more than the window holds,
\* assembled while a summary is cached.
C18_Witness ==
    /\ ended.op = "get_conversation_context"
    /\ ended.pc = "done"
    /\ ended.ret.strategy = "window"
    /\ Len(ended.obs.seen) = 6
    /\ Len(ended.ret.history) = 5
    /\ ended.ret.history[1] = ended.obs.seen[2]
    /\ ended.obs.summary # EmptyText

\* C19: a context that get_conversation_context returns, whatever the
\* strategy, carries a user profile, and that profile is the one stored for
\* the account when the call returns; when get_user_profile or
\* get_conversation_context has returned, a profile is stored for the account,
\* the default one when none was stored and there was no history to infer
\* from; and a stored profile goes away only by running out.
C19_ProfileAttached ==
    /\ [](/\ (ended.op = "get_conversation_context" /\ ended.pc = "done") =>
                /\ ended.ret.user_profile # NoKey
                /\ redis.user_profile[ended.acct]
                        = Stored(json_dumps_profile(Value(ended.ret.user_profile)))
                /\ ended.obs.profile = "default" =>
                        Value(ended.ret.user_profile) = Profile(0, FALSE)
          /\ (ended.op \in {"get_conversation_context", "get_user_profile"}
                    /\ ended.pc = "done") =>
                redis.user_profile[ended.acct] # NoKey)
    /\ [][\A a \in Accounts :
            (redis.user_profile[a] # NoKey /\ redis'.user_profile[a] = NoKey)
                => ExpireProfile(a)]_vars

\* A context assembled with strategy summary over a stored history, for an
\* account without stored profile, carries the profile inferred for it, and
\* that profile is now stored.
C19_Witness ==
    /\ ended.op = "get_conversation_context"
    /\ ended.pc = "done"
    /\ ended.ret.strategy = "summary"
    /\ ended.obs.profile = "inferred"
    /\ ended.obs.seen # <<>>
    /\ ended.ret.user_profile = Stored(Profile(0, TRUE))
    /\ redis.user_profile[ended.acct] = Stored(json_dumps_profile(Profile(0, TRUE)))

\* C20 (as claimed): a turn that failed before it yielded any fragment of a
\* response, during the context assembly or the agent invocation, has as its
\* whole output exactly one apology message, and its background tasks were
\* not created (nothing is persisted for it).
Apologies == {TimeoutApology, GenericFailure, ServiceBusy, NewSession}

C20_SingleApology ==
    (/\ ended.op = "chat_with_legal_agent"
     /\ ended.pc \in {"error", "raised"}
     /\ ended.obs.fragments = 0) =>
        /\ Len(ended.ret) = 1
        /\ ended.ret[1] \in Apologies
        /\ ~ended.obs.scheduled

\* C21: every call of web_search and image_analysis returns, and returns one
\* of the tools' texts, whatever its input and whatever the search wrapper,
\* the file system and the vision model do; image_analysis on a path that
\* does not exist returns the file-not-found text and has not called the
\* vision model.
C21_ToolsNeverRaise ==
    (ended.op \in {"web_search", "image_analysis"}) =>
        /\ ended.pc = "done"
        /\ Len(ended.ret) = 2
        /\ ended.ret[1] \in ToolPrefixes
        /\ (/\ ended.op = "image_analysis"
            /\ ended.obs.request.mapping
            /\ ended.obs.request.image_url # "none"
            /\ ended.obs.request.image_url \notin ended.obs.files.exists) =>
                /\ ended.ret = FileMissing(ended.obs.request.image_url)
                /\ ~ended.obs.called

\* image_analysis has been called on a path that does not exist, next to a
\* file that does.
C21_Witness ==
    /\ ended.op = "image_analysis"
    /\ ended.obs.request.image_url = "p1"
    /\ ended.obs.files.exists = {"p2"}
    /\ ended.ret = FileMissing("p1")

\* C22: the metadata log of an account never holds more than 100 records;
\* a persisted turn puts its record last, after the records the log held, and
\* when the log held 100 records the oldest of them is dropped.
MetadataLog(r, a) ==
    IF r.conv_metadata[a] # NoKey THEN json_loads_metadata(Value(r.conv_metadata[a]))
    ELSE <<>>

C22_MetadataCapped ==
    /\ [](\A a \in Accounts : Len(MetadataLog(redis, a)) <= 100)
    /\ [][(ended'.op = "background_tasks" /\ ended'.pc[1] # "none"
                /\ ended'.pc[2] # "none" /\ ended'.obs.down_save = "none") =>
            LET old == MetadataLog(redis, ended'.acct)
                new == MetadataLog(redis', ended'.acct)
            IN  /\ new # <<>>
                /\ new[Len(new)].timestamp = clock + 2
                /\ SubSeq(new, 1, Len(new) - 1)
                        = (IF Len(old) >= 100 THEN Tail(old) ELSE old)]_vars

\* Two turns were persisted on a log of 99 records: the log holds 100 records,
\* the oldest of the 99 is gone and the second oldest is now first.
C22_Witness ==
    /\ ended.op = "background_tasks"
    /\ Len(MetadataLog(redis, "a1")) = 100
    /\ MetadataLog(redis, "a1")[1] = AgedMetadata[2]
    /\ MetadataLog(redis, "a1")[100].timestamp > 0

\* C23: a step that appends one message to a history that holds
\* max_history_messages messages leaves as stored history the previous
\* history without its oldest message, in the same order, followed by the
\* new message.
C23_DropsOldest ==
    [][\A a \in Accounts :
        (/\ clock' = clock + 1
         /\ Len(appended'[a]) = Len(appended[a]) + 1
         /\ Len(get_chat_history(redis, a)) = max_history_messages) =>
            LET old == get_chat_history(redis, a)
                new == get_chat_history(redis', a)
                pair == appended'[a][Len(appended'[a])]
            IN  /\ Len(new) = max_history_messages
                /\ SubSeq(new, 1, max_history_messages - 1) = Tail(old)
                /\ new[max_history_messages] = Message(pair[1], pair[2], clock)]_vars

\* A message was appended to a full history handed over by a caller: it is
\* the last of the max_history_messages stored, after the caller's.
C23_Witness ==
    \E a \in Accounts :
        LET h == get_chat_history(redis, a)
        IN  /\ Len(appended[a]) > max_history_messages
            /\ Len(h) = max_history_messages
            /\ h[max_history_messages].timestamp > 0
            /\ h[max_history_messages - 1].timestamp = 0

\* C24 (as claimed): a call of generate_summary on a non-empty history that
\* returns without having invoked the model, and without a store failure,
\* found a summary stored: when none is stored the model is invoked, whatever
\* the stored hash.
C24_AbsentSummaryRegenerated ==
    (/\ ended.op = "generate_summary"
     /\ ended.pc = "done"
     /\ ended.obs.how # "failed"
     /\ ~ended.obs.invoked
     /\ get_chat_history(redis, ended.acct) # <<>>) =>
        redis.chat_summary[ended.acct] # NoKey

\* C25 (as claimed): for the tokens a turn has yielded to a consumer that
\* stays, the payloads of the data frames of the response, joined in order,
\* are the tokens joined in order; no data frame has an empty payload; and a
\* data frame that is not the last one was sent on a punctuation token or at
\* ChunkLength characters or more.
DataFrames(frames) == SelectSeq(frames, LAMBDA f : ~f.done)

Payloads(frames) == [i \in 1..Len(DataFrames(frames)) |-> DataFrames(frames)[i].data]

EndsOnPunctuation(chunk) ==
    chunk # "" /\ SubSeq(chunk, Len(chunk), Len(chunk)) \in Punctuation

C25_Lossless ==
    (ended.op = "chat_with_legal_agent" /\ ended.pc # "closed") =>
        LET payloads == Payloads(generate_stream_response(ended.ret, ended.pc))
        IN  /\ join(payloads) = join(ended.ret)
            /\ \A i \in 1..Len(payloads) : payloads[i] # ""
            /\ \A i \in 1..(Len(payloads) - 1) :
                    EndsOnPunctuation(payloads[i]) \/ Len(payloads[i]) >= ChunkLength

\* C26: the response handed to the persistence task of a turn is the
\* fragments the turn has yielded to its caller, joined in order, and the
\* input handed to it is the turn's input; what the task stores as the last
\* two messages are that input as the user message and that response as the
\* assistant message.
C26_StoredIsForwarded ==
    /\ []((ended.op = "chat_with_legal_agent" /\ ended.obs.scheduled) =>
            /\ ready # <<>>
            /\ ready[Len(ready)].agent_response = join(ended.ret)
            /\ ready[Len(ready)].user_input = ended.obs.input)
    /\ [][(ended'.op = "background_tasks" /\ ended'.pc[1] # "none"
                /\ ended'.pc[2] # "none" /\ ended'.obs.down_save = "none") =>
            LET job == Head(ready)
                h == get_chat_history(redis', ended'.acct)
            IN  /\ Len(h) >= 2
                /\ Pair(h[Len(h) - 1].role, h[Len(h) - 1].content) = Pair("user", job.user_input)
                /\ Pair(h[Len(h)].role, h[Len(h)].content)
                        = Pair("assistant", job.agent_response)]_vars

\* Two turns were persisted, the second with input W and the fragments Z, Y.
C26_Witness ==
    /\ ended.op = "background_tasks"
    /\ LET h == get_chat_history(redis, "a1")
       IN  /\ Len(h) = 4
           /\ h[3].content = "W"
           /\ h[4].content = "ZY"

\* C27: the step in which the persistence task of a turn runs leaves as
\* stored history the history it found followed by the turn's user message
\* and the turn's assistant message, cut to the last max_history_messages;
\* no other step of the event loop changes the stored history, also while
\* tasks of overlapping turns of the account are waiting or suspended.
C27_AppendsNotInterleaved ==
    [][\A a \in Accounts :
        LET old == get_chat_history(redis, a)
            new == get_chat_history(redis', a)
        IN  IF ended'.op = "background_tasks" /\ ended'.acct = a
                /\ ended'.pc[1] # "none" /\ ended'.pc[2] # "none"
            THEN LET job == Head(ready)
                 IN  /\ new = LastN(old \o <<Message("user", job.user_input, clock),
                                             Message("assistant", job.agent_response,
                                                     clock + 1)>>,
                                    max_history_messages)
                     /\ Pairs(SubSeq(new, Len(new) - 1, Len(new)))
                            = <<Pair("user", job.user_input),
                                Pair("assistant", job.agent_response)>>
            ELSE new = old]_vars

\* A turn has just been persisted on a full history while the tasks of a
\* later turn wait and the refresh of an earlier turn is suspended at the
\* model.
C27_Witness ==
    /\ ended.op = "background_tasks"
    /\ ended.pc[1] = "done"
    /\ ready # <<>>
    /\ bg # <<>>
    /\ bg[1].n < ended.obs.n
    /\ LET h == get_chat_history(redis, "a1")
       IN  /\ Len(h) = max_history_messages
           /\ h[Len(h)].timestamp = clock - 1
           /\ h[1].timestamp > AgedHistory[1].timestamp

\* C28: whenever a summary and a summary hash are both stored for an
\* account, and the summary is not the empty text, the stored hash is the
\* hash of the history the stored summary was generated from.
SummarizedHistory(text) == text[2]

C28_SummaryHashPaired ==
    \A a \in Accounts :
        (/\ redis.chat_summary[a] # NoKey
         /\ redis.summary_hash[a] # NoKey
         /\ Value(redis.chat_summary[a]).text # EmptyText) =>
            redis.summary_hash[a]
                = Stored(md5(SummarizedHistory(Value(redis.chat_summary[a]).text)))

\* A generation has written summary and hash while a generation of the other
\* caller, over another history, is still at the model, and the history has
\* changed since.
C28_Witness ==
    /\ ended.op = "generate_summary"
    /\ ended.obs.how = "generated"
    /\ redis.chat_summary["a1"] # NoKey
    /\ redis.summary_hash["a1"] # NoKey
    /\ Value(redis.chat_summary["a1"]).text # EmptyText
    /\ ~HistoryHashMatches(redis, "a1")
    /\ \E c \in Callers :
            /\ svc[c].pc = "llm"
            /\ Stored(svc[c].loc.messages_hash) # redis.summary_hash["a1"]

\* C29: when the refresh task of a finalized turn goes to the model for a
\* new summary, the history it has read for the prompt ends with the turn's
\* user message followed by the turn's assistant message: the persistence
\* task has written them before.
C29_SaveBeforeRefresh ==
    [][(/\ ended'.op = "background_tasks"
        /\ ended'.pc[2] = "summary_llm"
        /\ ended'.obs.down_save # "messages") =>
            LET job == Head(ready)
                refresh == bg'[Len(bg')]
                messages == refresh.loc.gen.messages
            IN  /\ refresh.kind = "update_conversation_summary"
                /\ refresh.n = job.n
                /\ Len(messages) >= 2
                /\ SubSeq(messages, Len(messages) - 1, Len(messages))
                        = <<Message("user", job.user_input, clock),
                            Message("assistant", job.agent_response, clock + 1)>>]_vars

\* The refresh of a turn is at the model, with a prompt over a history that
\* ends with the assistant message the same step has stored.
C29_Witness ==
    /\ ended.op = "background_tasks"
    /\ ended.pc[2] = "summary_llm"
    /\ bg # <<>>
    /\ bg[Len(bg)].kind = "update_conversation_summary"
    /\ bg[Len(bg)].n = ended.obs.n
    /\ LET messages == bg[Len(bg)].loc.gen.messages
       IN  /\ messages = get_chat_history(redis, "a1")
           /\ messages[Len(messages)].role = "assistant"
           /\ messages[Len(messages)].timestamp = clock - 1

\* C30: the step in which a turn ends whose agent stream has completed
\* without an output fragment creates no background task and changes no key
\* of the store: history, metadata log, profile and conversation counter are
\* as they were, and no task is added to those waiting or suspended.
C30_EmptyTurnSchedulesNothing ==
    [][(/\ ended'.op = "chat_with_legal_agent"
        /\ ended'.pc = "done"
        /\ ended'.obs.fragments = 0) =>
            /\ ~ended'.obs.scheduled
            /\ ended'.ret = <<>>
            /\ ready' = ready
            /\ bg' = bg
            /\ finalized' = finalized
            /\ redis' = redis]_vars

\* A turn of an account with one persisted turn has ended without an
\* output fragment; what the persisted turn left is all there is.
C30_Witness ==
    /\ ended.op = "chat_with_legal_agent"
    /\ ended.pc = "done"
    /\ ended.obs.fragments = 0
    /\ finalized["a1"] = 1
    /\ ready = <<>>
    /\ Len(get_chat_history(redis, "a1")) = 2
    /\ redis.conv_count["a1"] = Stored(1)

\* C31: the step in which a turn ends because the agent stream raised a
\* rate-limit or other generic exception after the turn had forwarded k >= 1
\* fragments leaves as the turn's output those k fragments, in their order,
\* followed by exactly one message (service busy for a rate limit, the
\* generic failure otherwise); it creates no background task and changes no
\* key of the store: history, metadata log, profile and conversation
\* counter are as they were.
C31_FailureAfterFragments ==
    [][(/\ ended'.op = "chat_with_legal_agent"
        /\ ended'.pc = "error"
        /\ ended'.obs.err \in {"rate limit", "other"}
        /\ ended'.obs.fragments >= 1) =>
            LET fr == turn[ended'.obs.slot]
            IN  /\ fr.pc = "stream"
                /\ Len(fr.out) = ended'.obs.fragments
                /\ fr.out = fr.full_response
                /\ ended'.ret = Append(fr.out, IF ended'.obs.err = "rate limit"
                                               THEN ServiceBusy ELSE GenericFailure)
                /\ ~ended'.obs.scheduled
                /\ redis' = redis
                /\ ready' = ready
                /\ bg' = bg
                /\ finalized' = finalized]_vars

\* A turn of an account with one persisted turn has failed on a rate limit
\* after two fragments: its output is the two fragments and the
\* service-busy message, and what the persisted turn left is all there is.
C31_Witness ==
    /\ ended.op = "chat_with_legal_agent"
    /\ ended.pc = "error"
    /\ ended.obs.err = "rate limit"
    /\ ended.obs.fragments = 2
    /\ ended.ret = <<"Y", "Z", ServiceBusy>>
    /\ finalized["a1"] = 1
    /\ ready = <<>>
    /\ Len(get_chat_history(redis, "a1")) = 2
    /\ redis.conv_count["a1"] = Stored(1)

====
